---- MODULE Spec2Model ----
(***************************************************************************)
(* A model of badnet, a fault-injecting TCP proxy for tests.               *)
(*                                                                         *)
(* The proxy of src/unnamed/part_005 is the current revision: ForTest      *)
(* starts an accept loop; every accepted connection gets a session         *)
(* goroutine that dials the target and starts two relay goroutines         *)
(* (pipe); the fault-injecting connection truncates reads and writes when  *)
(* the Fault Coin (shouldFail) fires; four atomic counters keep the        *)
(* statistics.                                                             *)
(***************************************************************************)
EXTENDS Integers, Sequences, FiniteSets, TLC

(***************************************************************************)
(* Bounds of the model.                                                    *)
(***************************************************************************)
\* Number of client connections the environment offers to the listener.
MaxConns == 2
\* Number of dials the target answers; it refuses the later ones.
MaxRelays == 1
\* Length of the buffer io.Copy hands to Read (32 KiB in Go, scaled down).
CopyBuf == 2
\* Largest counter value and buffer length of the pure-function checks.
MaxCount == 3
MaxBuf == 5
\* Number of bytes the client writes.
MaxSent == 3

(***************************************************************************)
(* Program constants.                                                      *)
(***************************************************************************)
\* var maxChoice = big.NewInt(100)
maxChoice == 100
\* errCh := make(chan error, 2)
ErrChCap == 2

Sessions == 1..MaxConns
\* The two relay directions of a session, named by the counter pipe is given:
\*   "toClient": pipe(errCh, conn, target, &p.readFailures)   dst = conn
\*   "toTarget": pipe(errCh, target, conn, &p.writeFailures)  dst = target
Dirs == {"toClient", "toTarget"}
\* The failure ratios a Config is given, and the draws of the Fault Coin.
Ratios == {0, 50}
Draws == {49, 50}

Min(a, b) == IF a <= b THEN a ELSE b

(***************************************************************************)
(* Errors are chains (outermost first), so that errors.Is has something to *)
(* unwrap: fmt.Errorf("...: %w", err) and net.OpError both wrap.           *)
(***************************************************************************)
Nil == <<>>
EOF == <<"EOF">>
ErrUnexpectedEOF == <<"ErrUnexpectedEOF">>
ErrShortWrite == <<"ErrShortWrite">>
\* What an operation on a locally closed net.Conn or net.Listener returns.
NetClosed == <<"OpError", "ErrClosed">>
\* A genuine transport error: the peer reset the connection.
ConnReset == <<"OpError", "ECONNRESET">>
\* A genuine Accept failure that is not a close (out of file descriptors).
AcceptFault == <<"OpError", "EMFILE">>
Wrap(msg, err) == <<msg>> \o err

\* A comparison that does not unwrap: err == target.
ErrorsIs_NoUnwrap(err, target) == Len(err) = 1 /\ err[1] = target

ErrorsIs(err, target) == \E i \in 1..Len(err) : err[i] = target

(***************************************************************************)
(* shouldFail: the Fault Coin.  draw is the value of rand.Int(.., 100).    *)
(***************************************************************************)
\* The tie-break of another revision: the draw may equal the ratio.
shouldFail_LessEq(ratio, draw) == draw <= ratio

shouldFail(ratio, draw) ==
    IF ratio <= 0 THEN FALSE ELSE draw < ratio

(***************************************************************************)
(* The underlying connection of one call: it delivers (or takes) at most   *)
(* u.n bytes and returns u.err.                                            *)
(***************************************************************************)
UnderIO(u, req) == [n |-> Min(req, u.n), err |-> u.err]

(***************************************************************************)
(* conn.Read and conn.Write of the fault-injecting connection.  blen is    *)
(* len(b).  The result also tells what was handed to the underlying        *)
(* connection (passed) and whether the fault branch was taken (fired).     *)
(***************************************************************************)
ConnRead_Whole(ratio, draw, blen, u) ==
    IF shouldFail(ratio, draw)
    THEN LET r == UnderIO(u, blen)
         IN [n |-> r.n,
             err |-> IF r.err = Nil THEN ErrUnexpectedEOF ELSE r.err,
             passed |-> blen, fired |-> TRUE]
    ELSE LET r == UnderIO(u, blen)
         IN [n |-> r.n, err |-> r.err, passed |-> blen, fired |-> FALSE]

\* A Read that reports every truncated read as io.ErrUnexpectedEOF.
ConnRead_HidesError(ratio, draw, blen, u) ==
    IF shouldFail(ratio, draw)
    THEN LET r == UnderIO(u, blen \div 2)
         IN [n |-> r.n, err |-> ErrUnexpectedEOF,
             passed |-> blen \div 2, fired |-> TRUE]
    ELSE LET r == UnderIO(u, blen)
         IN [n |-> r.n, err |-> r.err, passed |-> blen, fired |-> FALSE]

ConnRead(ratio, draw, blen, u) ==
    IF shouldFail(ratio, draw)
    THEN LET r == UnderIO(u, blen \div 2)
         IN [n |-> r.n,
             err |-> IF r.err = Nil THEN ErrUnexpectedEOF ELSE r.err,
             passed |-> blen \div 2, fired |-> TRUE]
    ELSE LET r == UnderIO(u, blen)
         IN [n |-> r.n, err |-> r.err, passed |-> blen, fired |-> FALSE]

\* A Write that truncates but reports the underlying result as it is.
ConnWrite_KeepsNil(ratio, draw, blen, u) ==
    IF shouldFail(ratio, draw)
    THEN LET r == UnderIO(u, blen \div 2)
         IN [n |-> r.n, err |-> r.err, passed |-> blen \div 2, fired |-> TRUE]
    ELSE LET r == UnderIO(u, blen)
         IN [n |-> r.n, err |-> r.err, passed |-> blen, fired |-> FALSE]

\* A Write that truncates whatever the Fault Coin says.
ConnWrite_Truncating(ratio, draw, blen, u) ==
    LET r == UnderIO(u, blen \div 2)
    IN [n |-> r.n,
        err |-> IF r.err = Nil THEN ErrUnexpectedEOF ELSE r.err,
        passed |-> blen \div 2, fired |-> TRUE]

ConnWrite(ratio, draw, blen, u) ==
    IF shouldFail(ratio, draw)
    THEN LET r == UnderIO(u, blen \div 2)
         IN [n |-> r.n,
             err |-> IF r.err = Nil THEN ErrUnexpectedEOF ELSE r.err,
             passed |-> blen \div 2, fired |-> TRUE]
    ELSE LET r == UnderIO(u, blen)
         IN [n |-> r.n, err |-> r.err, passed |-> blen, fired |-> FALSE]

\* Read and Write of a plain net.Conn (the dialed target): no injection.
RawIO(blen, u) ==
    LET r == UnderIO(u, blen)
    IN [n |-> r.n, err |-> r.err, passed |-> blen, fired |-> FALSE]

(***************************************************************************)
(* Proxy.FailureRatio: the float64 quotient is kept as a fraction.         *)
(***************************************************************************)
FailureRatio_NoZeroCheck(cc, rf, wf, tf) ==
    [num |-> rf + wf + tf, den |-> cc]

\* A ratio given in percent.
FailureRatio_Percent(cc, rf, wf, tf) ==
    IF cc = 0
    THEN [num |-> 0, den |-> 1]
    ELSE [num |-> (rf + wf + tf) * 100, den |-> cc]

FailureRatio(cc, rf, wf, tf) ==
    LET connections == cc
        failures == rf + wf + tf
    IN IF connections = 0
       THEN [num |-> 0, den |-> 1]
       ELSE [num |-> failures, den |-> connections]

(***************************************************************************)
(* State.                                                                  *)
(***************************************************************************)
VARIABLES
    readRatio,        \* conf.Read.FailureRatio  (listener.readFailureRatio)
    writeRatio,       \* conf.Write.FailureRatio (listener.writeFailureRatio)
    confTarget,       \* conf.Target, a string (a sequence of characters)
    listenerOpen,     \* the listener has not been closed
    loopPc,           \* accept-loop goroutine: "accepting" | "exited"
    hookPc,           \* t.Cleanup hook: "idle" | "waiting" | "returned"
    tErrors,          \* what was reported with t.Error: {"accept", "dial"}
    connectionCount,  \* p.connectionCount
    readFailures,     \* p.readFailures
    writeFailures,    \* p.writeFailures
    targetFailures,   \* p.targetFailures
    acceptsOk,        \* history: Accept calls that returned a connection
    acceptsFailed,    \* history: Accept calls that returned an error
    sess,             \* session goroutine of each accepted connection
    pipes,            \* the two pipe goroutines of each session
    errCh,            \* the session's errCh: how many results are buffered in
                      \* it (the session discards the value it receives)
    call,             \* the last conn.Read / conn.Write call and its result
    ratioOut,         \* the last value FailureRatio() returned
    wire,             \* the bytes of the first session: what the client wrote,
                      \* what is in flight on each leg, what arrived
    legacy            \* the accept loop of the ForTest revisions of src/badnet.go

counters == <<connectionCount, readFailures, writeFailures, targetFailures>>
config == <<readRatio, writeRatio, confTarget>>
engine == <<listenerOpen, loopPc, hookPc, tErrors, acceptsOk, acceptsFailed,
            sess, pipes, errCh>>
vars == <<config, engine, counters, call, ratioOut, wire, legacy>>

NoSession == [pc |-> "none", conn |-> "none", target |-> "none", dial |-> "none"]
NoPipe == [pc |-> "none", nr |-> 0, er |-> Nil, err |-> Nil]
NoCall == [op |-> "none"]
\* The accept loop of src/badnet.go is not running.
NoLegacy == [rev |-> "none"]
\* The target of the runs that are not about its normalisation: "a:1".
PlainTarget == <<"a", ":", "1">>
NoRatio == [num |-> 0, den |-> 0]
\* No byte has been written yet.
\*   sent: all the client wrote         c2p: written by the client, not yet read
\*   p2t: relayed, not yet read by the target   atTarget: all the target read
\*   t2p: echoed, not yet read by the relay     recv: all the client got back
\*   buf: the bytes in each relay's io.Copy buffer
NoWire == [sent |-> <<>>, c2p |-> <<>>, p2t |-> <<>>, atTarget |-> <<>>,
           t2p |-> <<>>, recv |-> <<>>, buf |-> [d \in Dirs |-> <<>>]]

\* p := &Proxy{...}; newListener; the accept loop is started.
InitProxy ==
    /\ listenerOpen = TRUE
    /\ loopPc = "accepting"
    /\ hookPc = "idle"
    /\ tErrors = {}
    /\ connectionCount = 0
    /\ readFailures = 0
    /\ writeFailures = 0
    /\ targetFailures = 0
    /\ acceptsOk = 0
    /\ acceptsFailed = 0
    /\ sess = [s \in Sessions |-> NoSession]
    /\ pipes = [s \in Sessions |-> [d \in Dirs |-> NoPipe]]
    /\ errCh = [s \in Sessions |-> 0]

Init ==
    /\ readRatio \in Ratios
    /\ writeRatio \in Ratios
    /\ InitProxy
    /\ confTarget = PlainTarget
    /\ call = NoCall
    /\ ratioOut = NoRatio
    /\ wire = NoWire
    /\ legacy = NoLegacy

started == Cardinality({s \in Sessions : sess[s].pc # "none"})
dialed == Cardinality({s \in Sessions : sess[s].dial = "ok"})

(***************************************************************************)
(* The accept loop.                                                        *)
(***************************************************************************)
\* A loop that serves one session at a time: it accepts the next connection
\* only when the earlier sessions have ended.
AcceptConn_Serial ==
    /\ loopPc = "accepting"
    /\ listenerOpen
    /\ started < MaxConns
    /\ \A t \in Sessions : sess[t].pc \in {"none", "done"}
    /\ LET s == started + 1
       IN /\ sess' = [sess EXCEPT ![s] = [pc |-> "dial", conn |-> "open",
                                         target |-> "none", dial |-> "pending"]]
    /\ connectionCount' = connectionCount + 1
    /\ acceptsOk' = acceptsOk + 1
    /\ UNCHANGED <<config, listenerOpen, loopPc, hookPc, tErrors, acceptsFailed,
                   pipes, errCh, readFailures, writeFailures, targetFailures,
                   call, ratioOut, wire, legacy>>

\* conn, err := ln.Accept() with err == nil; p.connectionCount.Add(1);
\* go func(conn net.Conn) {...}(conn)
AcceptConn ==
    /\ loopPc = "accepting"
    /\ listenerOpen
    /\ started < MaxConns
    /\ LET s == started + 1
       IN /\ sess' = [sess EXCEPT ![s] = [pc |-> "dial", conn |-> "open",
                                         target |-> "none", dial |-> "pending"]]
    /\ connectionCount' = connectionCount + 1
    /\ acceptsOk' = acceptsOk + 1
    /\ UNCHANGED <<config, listenerOpen, loopPc, hookPc, tErrors, acceptsFailed,
                   pipes, errCh, readFailures, writeFailures, targetFailures,
                   call, ratioOut, wire, legacy>>

\* What listener.Accept returns when the throttled Accept fails.
AcceptError == Wrap("listener.Accept", IF listenerOpen THEN AcceptFault ELSE NetClosed)

\* A loop that counts before it looks at err.
AcceptErr_Counts ==
    /\ loopPc = "accepting"
    /\ connectionCount' = connectionCount + 1
    /\ loopPc' = "exited"
    /\ acceptsFailed' = acceptsFailed + 1
    /\ UNCHANGED <<config, listenerOpen, hookPc, tErrors, acceptsOk, sess, pipes,
                   errCh, readFailures, writeFailures, targetFailures, call, ratioOut, wire,
                   legacy>>

\* err != nil: report it unless it is net.ErrClosed, then return;
\* the deferred close(p.listenerClosed) runs.
AcceptErr ==
    /\ loopPc = "accepting"
    /\ LET err == AcceptError
       IN tErrors' = IF ~ErrorsIs(err, "ErrClosed")
                     THEN tErrors \cup {"accept"} ELSE tErrors
    /\ loopPc' = "exited"
    /\ acceptsFailed' = acceptsFailed + 1
    /\ UNCHANGED <<config, listenerOpen, hookPc, acceptsOk, sess, pipes, errCh,
                   counters, call, ratioOut, wire, legacy>>

(***************************************************************************)
(* The teardown hook registered with t.Cleanup.                            *)
(***************************************************************************)
\* ln.Close(); cancel()
HookClose ==
    /\ hookPc = "idle"
    /\ listenerOpen' = FALSE
    /\ hookPc' = "waiting"
    /\ UNCHANGED <<config, loopPc, tErrors, acceptsOk, acceptsFailed, sess, pipes,
                   errCh, counters, call, ratioOut, wire, legacy>>

\* A hook that does not wait for the accept loop.
ListenerClosedRecv_NoWait == TRUE

\* A hook that also waits for every session to end.
ListenerClosedRecv_WaitsSessions ==
    /\ loopPc = "exited"
    /\ \A s \in Sessions : sess[s].pc \in {"none", "done"}

\* <-p.listenerClosed can be received once the channel is closed.
ListenerClosedRecv == loopPc = "exited"

HookReturn ==
    /\ hookPc = "waiting"
    /\ ListenerClosedRecv
    /\ hookPc' = "returned"
    /\ UNCHANGED <<config, listenerOpen, loopPc, tErrors, acceptsOk, acceptsFailed,
                   sess, pipes, errCh, counters, call, ratioOut, wire, legacy>>

(***************************************************************************)
(* The session goroutine of one accepted connection.                       *)
(***************************************************************************)
\* The target of the bounded runs answers MaxRelays dials.
TargetAnswers == dialed < MaxRelays

\* net.Dial succeeded: defer target.Close(); errCh := make(chan error, 2);
\* go pipe(errCh, conn, target, &p.readFailures)
\* go pipe(errCh, target, conn, &p.writeFailures)
SessionDialOk(s) ==
    /\ sess[s].pc = "dial"
    /\ sess' = [sess EXCEPT ![s] = [@ EXCEPT !.pc = "wait", !.target = "open",
                                              !.dial = "ok"]]
    /\ pipes' = [pipes EXCEPT ![s] = [d \in Dirs |-> [NoPipe EXCEPT !.pc = "read"]]]
    /\ UNCHANGED <<config, listenerOpen, loopPc, hookPc, tErrors, acceptsOk,
                   acceptsFailed, errCh, counters, call, ratioOut, wire, legacy>>

\* A session that reports the failed dial without counting it.
SessionDialFail_NoCount(s) ==
    /\ sess[s].pc = "dial"
    /\ tErrors' = tErrors \cup {"dial"}
    /\ sess' = [sess EXCEPT ![s] = [@ EXCEPT !.pc = "done", !.conn = "closed",
                                              !.dial = "failed"]]
    /\ UNCHANGED <<config, listenerOpen, loopPc, hookPc, acceptsOk, acceptsFailed,
                   pipes, errCh, counters, call, ratioOut, wire, legacy>>

\* net.Dial failed: p.targetFailures.Add(1); t.Error(...); return, and the
\* deferred conn.Close() runs.
SessionDialFail(s) ==
    /\ sess[s].pc = "dial"
    /\ targetFailures' = targetFailures + 1
    /\ tErrors' = tErrors \cup {"dial"}
    /\ sess' = [sess EXCEPT ![s] = [@ EXCEPT !.pc = "done", !.conn = "closed",
                                              !.dial = "failed"]]
    /\ UNCHANGED <<config, listenerOpen, loopPc, hookPc, acceptsOk, acceptsFailed,
                   pipes, errCh, connectionCount, readFailures, writeFailures,
                   call, ratioOut, wire, legacy>>

\* A session whose deferred calls also close the listener.
SessionEnd_ClosesListener(s) ==
    /\ sess[s].pc = "wait"
    /\ errCh[s] > 0
    /\ errCh' = [errCh EXCEPT ![s] = @ - 1]
    /\ sess' = [sess EXCEPT ![s] = [@ EXCEPT !.pc = "done", !.target = "closed",
                                              !.conn = "closed"]]
    /\ listenerOpen' = FALSE
    /\ UNCHANGED <<config, loopPc, hookPc, tErrors, acceptsOk,
                   acceptsFailed, pipes, counters, call, ratioOut, wire, legacy>>

\* <-errCh received one result; the deferred target.Close() and conn.Close() run.
SessionEnd(s) ==
    /\ sess[s].pc = "wait"
    /\ errCh[s] > 0
    /\ errCh' = [errCh EXCEPT ![s] = @ - 1]
    /\ sess' = [sess EXCEPT ![s] = [@ EXCEPT !.pc = "done", !.target = "closed",
                                              !.conn = "closed"]]
    /\ UNCHANGED <<config, listenerOpen, loopPc, hookPc, tErrors, acceptsOk,
                   acceptsFailed, pipes, counters, call, ratioOut, wire, legacy>>

(***************************************************************************)
(* pipe: io.Copy(dst, src), then the counter, then errCh <- err.           *)
(***************************************************************************)
\* Whether the connection a relay reads from / writes to is still open.
SrcOpen(s, d) == IF d = "toClient" THEN sess[s].target = "open" ELSE sess[s].conn = "open"
DstOpen(s, d) == IF d = "toClient" THEN sess[s].conn = "open" ELSE sess[s].target = "open"

\* What the transport can do in one read: deliver bytes, end of stream, a reset.
ReadOutcomes ==
    {[n |-> CopyBuf, err |-> Nil], [n |-> 0, err |-> EOF], [n |-> 0, err |-> ConnReset]}
\* ... and in one write: take every byte, or fail with a reset.
WriteOutcomes ==
    {[n |-> CopyBuf, err |-> Nil], [n |-> 0, err |-> ConnReset]}
ClosedOutcome == [n |-> 0, err |-> NetClosed]

\* io.Copy after src.Read returned res: write the bytes read, or end the copy
\* (EOF ends it without an error).
AfterRead(p, res) ==
    IF res.n > 0
    THEN [p EXCEPT !.pc = "write", !.nr = res.n, !.er = res.err]
    ELSE IF res.err # Nil
         THEN [p EXCEPT !.pc = "ret", !.err = IF res.err = EOF THEN Nil ELSE res.err]
         ELSE p

\* A copy loop that does not look at what Write returned.
AfterWrite_IgnoresWrite(p, res) ==
    IF p.er # Nil
    THEN [p EXCEPT !.pc = "ret", !.nr = 0, !.er = Nil,
                   !.err = IF p.er = EOF THEN Nil ELSE p.er]
    ELSE [p EXCEPT !.pc = "read", !.nr = 0, !.er = Nil]

\* A copy loop that goes on reading whatever the write and the read returned.
AfterWrite_Resumes(p, res) == [p EXCEPT !.pc = "read", !.nr = 0, !.er = Nil]

\* io.Copy after dst.Write(buf[0:nr]) returned res.
AfterWrite(p, res) ==
    LET end(e) == [p EXCEPT !.pc = "ret", !.nr = 0, !.er = Nil, !.err = e]
    IN IF res.err # Nil THEN end(res.err)
       ELSE IF p.nr # res.n THEN end(ErrShortWrite)
       ELSE IF p.er # Nil THEN end(IF p.er = EOF THEN Nil ELSE p.er)
       ELSE [p EXCEPT !.pc = "read", !.nr = 0, !.er = Nil]

\* src.Read(buf) of one io.Copy round.  The relay towards the target reads the
\* fault-injecting connection, the relay towards the client reads the target.
ReadResult(d, draw, u) ==
    IF d = "toTarget" THEN ConnRead(readRatio, draw, CopyBuf, u) ELSE RawIO(CopyBuf, u)

\* dst.Write(buf[0:nr]): the relay towards the client writes the
\* fault-injecting connection, the relay towards the target writes the target.
WriteResult(d, draw, nr, u) ==
    IF d = "toClient" THEN ConnWrite(writeRatio, draw, nr, u) ELSE RawIO(nr, u)

CopyRead(s, d) ==
    /\ pipes[s][d].pc = "read"
    /\ SrcOpen(s, d)
    /\ \E u \in ReadOutcomes, draw \in Draws :
          pipes' = [pipes EXCEPT ![s][d] = AfterRead(@, ReadResult(d, draw, u))]
    /\ UNCHANGED <<config, listenerOpen, loopPc, hookPc, tErrors, acceptsOk,
                   acceptsFailed, sess, errCh, counters, call, ratioOut, wire,
                   legacy>>

\* The same read when the session has closed the source connection.
CopyReadClosed(s, d) ==
    /\ pipes[s][d].pc = "read"
    /\ ~SrcOpen(s, d)
    /\ \E draw \in Draws :
          pipes' = [pipes EXCEPT ![s][d] = AfterRead(@, ReadResult(d, draw, ClosedOutcome))]
    /\ UNCHANGED <<config, listenerOpen, loopPc, hookPc, tErrors, acceptsOk,
                   acceptsFailed, sess, errCh, counters, call, ratioOut, wire,
                   legacy>>

CopyWrite(s, d) ==
    /\ pipes[s][d].pc = "write"
    /\ DstOpen(s, d)
    /\ \E u \in WriteOutcomes, draw \in Draws :
          pipes' = [pipes EXCEPT ![s][d] =
                        AfterWrite(@, WriteResult(d, draw, pipes[s][d].nr, u))]
    /\ UNCHANGED <<config, listenerOpen, loopPc, hookPc, tErrors, acceptsOk,
                   acceptsFailed, sess, errCh, counters, call, ratioOut, wire,
                   legacy>>

CopyWriteClosed(s, d) ==
    /\ pipes[s][d].pc = "write"
    /\ ~DstOpen(s, d)
    /\ \E draw \in Draws :
          pipes' = [pipes EXCEPT ![s][d] =
                        AfterWrite(@, WriteResult(d, draw, pipes[s][d].nr, ClosedOutcome))]
    /\ UNCHANGED <<config, listenerOpen, loopPc, hookPc, tErrors, acceptsOk,
                   acceptsFailed, sess, errCh, counters, call, ratioOut, wire,
                   legacy>>

\* A pipe that counts every error, the closed connection included.
CounterAdd_CountsClosed(err) == IF err # Nil THEN 1 ELSE 0

\* if err != nil && !errors.Is(err, net.ErrClosed) { counter.Add(1) }
CounterAdd(err) == IF err # Nil /\ ~ErrorsIs(err, "ErrClosed") THEN 1 ELSE 0

\* An unbuffered errCh, make(chan error): a send needs the waiting receiver.
CanSend_Unbuffered(s) == sess[s].pc = "wait" /\ errCh[s] = 0

\* A send on errCh goes through when the buffer has room or the session is
\* blocked in its receive.
CanSend(s) ==
    \/ errCh[s] < ErrChCap
    \/ sess[s].pc = "wait" /\ errCh[s] = 0

\* The pipe of the earlier revisions, for { io.Copy; errCh <- err }, with the
\* counter: it copies again after it has reported.
PipeReturn_Loops(s, d) ==
    /\ pipes[s][d].pc = "ret"
    /\ CanSend(s)
    /\ LET err == pipes[s][d].err
           add == CounterAdd(err)
       IN /\ readFailures' = IF d = "toClient" THEN readFailures + add ELSE readFailures
          /\ writeFailures' = IF d = "toTarget" THEN writeFailures + add ELSE writeFailures
          /\ pipes' = [pipes EXCEPT ![s][d] = [NoPipe EXCEPT !.pc = "read"]]
          /\ errCh' = [errCh EXCEPT ![s] = @ + 1]
    /\ UNCHANGED <<config, listenerOpen, loopPc, hookPc, tErrors, acceptsOk,
                   acceptsFailed, sess, connectionCount, targetFailures,
                   call, ratioOut, wire, legacy>>

\* io.Copy has returned err: count it, then errCh <- err.
PipeReturn(s, d) ==
    /\ pipes[s][d].pc = "ret"
    /\ CanSend(s)
    /\ LET err == pipes[s][d].err
           add == CounterAdd(err)
       IN /\ readFailures' = IF d = "toClient" THEN readFailures + add ELSE readFailures
          /\ writeFailures' = IF d = "toTarget" THEN writeFailures + add ELSE writeFailures
          /\ pipes' = [pipes EXCEPT ![s][d] = [NoPipe EXCEPT !.pc = "done"]]
          /\ errCh' = [errCh EXCEPT ![s] = @ + 1]
    /\ UNCHANGED <<config, listenerOpen, loopPc, hookPc, tErrors, acceptsOk,
                   acceptsFailed, sess, connectionCount, targetFailures,
                   call, ratioOut, wire, legacy>>

(***************************************************************************)
(* The proxy: everything ForTest sets going.                               *)
(***************************************************************************)
Next ==
    \/ AcceptConn
    \/ AcceptErr
    \/ HookClose
    \/ HookReturn
    \/ \E s \in Sessions : TargetAnswers /\ SessionDialOk(s)
    \/ \E s \in Sessions : SessionDialFail(s)
    \/ \E s \in Sessions : SessionEnd(s)
    \/ \E s \in Sessions, d \in Dirs : CopyRead(s, d)
    \/ \E s \in Sessions, d \in Dirs : CopyReadClosed(s, d)
    \/ \E s \in Sessions, d \in Dirs : CopyWrite(s, d)
    \/ \E s \in Sessions, d \in Dirs : CopyWriteClosed(s, d)
    \/ \E s \in Sessions, d \in Dirs : PipeReturn(s, d)

Spec == Init /\ [][Next]_vars

(***************************************************************************)
(* Scheduling: a runnable goroutine runs.  A receive from a non-empty      *)
(* errCh, a send the channel can take, and a read or write on a closed     *)
(* connection all return; a read or write on an open connection may wait   *)
(* for the peer for ever.                                                  *)
(***************************************************************************)
Fairness ==
    /\ \A s \in Sessions : WF_vars(SessionEnd(s))
    /\ \A s \in Sessions, d \in Dirs :
          /\ WF_vars(CopyReadClosed(s, d))
          /\ WF_vars(CopyWriteClosed(s, d))
          /\ WF_vars(PipeReturn(s, d))

\* The sessions alone: neither teardown nor a failing Accept touches a session,
\* its connections or its relay tasks.  With both ratios strictly between 0
\* and 100 every call can go either way, which covers what the other
\* configurations can do.
InitRelay ==
    /\ readRatio = 50
    /\ writeRatio = 50
    /\ InitProxy
    /\ confTarget = PlainTarget
    /\ call = NoCall
    /\ ratioOut = NoRatio
    /\ wire = NoWire
    /\ legacy = NoLegacy

NextRelay ==
    \/ AcceptConn
    \/ \E s \in Sessions : TargetAnswers /\ SessionDialOk(s)
    \/ \E s \in Sessions : SessionDialFail(s)
    \/ \E s \in Sessions : SessionEnd(s)
    \/ \E s \in Sessions, d \in Dirs : CopyRead(s, d)
    \/ \E s \in Sessions, d \in Dirs : CopyReadClosed(s, d)
    \/ \E s \in Sessions, d \in Dirs : CopyWrite(s, d)
    \/ \E s \in Sessions, d \in Dirs : CopyWriteClosed(s, d)
    \/ \E s \in Sessions, d \in Dirs : PipeReturn(s, d)

RelaySpec == InitRelay /\ [][NextRelay]_vars /\ Fairness

(***************************************************************************)
(* Teardown: an Accept blocked on a closed listener returns, and a receive *)
(* from the closed listenerClosed returns.  Nothing is assumed of the      *)
(* sessions: a dial or a relay may stay blocked for ever.                  *)
(***************************************************************************)
AcceptClosed == ~listenerOpen /\ AcceptErr

TeardownFairness ==
    /\ WF_vars(AcceptClosed)
    /\ WF_vars(HookReturn)

TeardownSpec == Init /\ [][Next]_vars /\ TeardownFairness

(***************************************************************************)
(* The proxy under load: the target answers every dial it is sent, so all  *)
(* the sessions can be relaying at once.                                   *)
(***************************************************************************)
NextLoad ==
    \/ AcceptConn
    \/ AcceptErr
    \/ HookClose
    \/ HookReturn
    \/ \E s \in Sessions : SessionDialOk(s)
    \/ \E s \in Sessions : SessionDialFail(s)
    \/ \E s \in Sessions : SessionEnd(s)
    \/ \E s \in Sessions, d \in Dirs : CopyRead(s, d)
    \/ \E s \in Sessions, d \in Dirs : CopyReadClosed(s, d)
    \/ \E s \in Sessions, d \in Dirs : CopyWrite(s, d)
    \/ \E s \in Sessions, d \in Dirs : CopyWriteClosed(s, d)
    \/ \E s \in Sessions, d \in Dirs : PipeReturn(s, d)

LoadSpec == Init /\ [][NextLoad]_vars

(***************************************************************************)
(* conn.Read and conn.Write called once on an accepted connection, with    *)
(* every buffer length, draw and behaviour of the underlying connection.   *)
(***************************************************************************)
IORatios == {0, 50, 100}
IODraws == 0..(maxChoice - 1)
IOErrors == {Nil, EOF, ConnReset, NetClosed}
Underlying == [n : 0..MaxBuf, err : IOErrors]

InitIO ==
    /\ readRatio \in IORatios
    /\ writeRatio \in IORatios
    /\ InitProxy
    /\ confTarget = PlainTarget
    /\ call = NoCall
    /\ ratioOut = NoRatio
    /\ wire = NoWire
    /\ legacy = NoLegacy

DoRead ==
    /\ call = NoCall
    /\ \E blen \in 0..MaxBuf, draw \in IODraws, u \in Underlying :
          call' = [op |-> "Read", blen |-> blen, under |-> u,
                   res |-> ConnRead(readRatio, draw, blen, u)]
    /\ UNCHANGED <<config, engine, counters, ratioOut, wire, legacy>>

DoWrite ==
    /\ call = NoCall
    /\ \E blen \in 0..MaxBuf, draw \in IODraws, u \in Underlying :
          call' = [op |-> "Write", blen |-> blen, under |-> u,
                   res |-> ConnWrite(writeRatio, draw, blen, u)]
    /\ UNCHANGED <<config, engine, counters, ratioOut, wire, legacy>>

NextIO == DoRead \/ DoWrite

IOSpec == InitIO /\ [][NextIO]_vars

(***************************************************************************)
(* Proxy.FailureRatio called once, for every value of the four counters.   *)
(***************************************************************************)
InitStats ==
    /\ readRatio = 0
    /\ writeRatio = 0
    /\ listenerOpen = TRUE
    /\ loopPc = "accepting"
    /\ hookPc = "idle"
    /\ tErrors = {}
    /\ connectionCount \in 0..MaxCount
    /\ readFailures \in 0..MaxCount
    /\ writeFailures \in 0..MaxCount
    /\ targetFailures \in 0..MaxCount
    /\ acceptsOk = connectionCount
    /\ acceptsFailed = 0
    /\ sess = [s \in Sessions |-> NoSession]
    /\ pipes = [s \in Sessions |-> [d \in Dirs |-> NoPipe]]
    /\ errCh = [s \in Sessions |-> 0]
    /\ confTarget = PlainTarget
    /\ call = NoCall
    /\ ratioOut = NoRatio
    /\ wire = NoWire
    /\ legacy = NoLegacy

QueryFailureRatio ==
    /\ ratioOut = NoRatio
    /\ ratioOut' = FailureRatio(connectionCount, readFailures, writeFailures,
                                targetFailures)
    /\ UNCHANGED <<config, engine, counters, call, wire, legacy>>

NextStats == QueryFailureRatio

StatsSpec == InitStats /\ [][NextStats]_vars

(***************************************************************************)
(* One client talking through the proxy to an echoing target, byte by      *)
(* byte: the client writes, the relay towards the target reads the inbound *)
(* connection and writes the target, the target echoes, the relay towards  *)
(* the client reads the target and writes the inbound connection.  Neither *)
(* peer closes.  Sessions share no data, so one session carries the bytes. *)
(***************************************************************************)
Bytes == {"a", "b"}
EchoSession == 1

Take(q, n) == SubSeq(q, 1, n)
Drop(q, n) == SubSeq(q, n + 1, Len(q))
IsPrefix(p, q) == Len(p) <= Len(q) /\ Take(q, Len(p)) = p

\* The client dials the proxy: the one connection of this run is accepted.
EchoAccept == started = 0 /\ AcceptConn

\* conn.Write(message) of the client, one byte at a time.
ClientWrite ==
    /\ sess[EchoSession].conn = "open"
    /\ Len(wire.sent) < MaxSent
    /\ \E b \in Bytes :
          wire' = [wire EXCEPT !.sent = Append(@, b), !.c2p = Append(@, b)]
    /\ UNCHANGED <<config, engine, counters, call, ratioOut, legacy>>

\* The bytes a relay reads from, by direction.
SrcQueue(d) == IF d = "toTarget" THEN wire.c2p ELSE wire.t2p

\* src.Read(buf) of io.Copy returns when bytes have arrived: the underlying
\* read delivers some of them, the relay keeps what Read returned.
EchoRead(d) ==
    /\ pipes[EchoSession][d].pc = "read"
    /\ SrcOpen(EchoSession, d)
    /\ SrcQueue(d) # <<>>
    /\ \E avail \in 1..Len(SrcQueue(d)), draw \in Draws :
          LET res == ReadResult(d, draw, [n |-> avail, err |-> Nil])
          IN /\ pipes' = [pipes EXCEPT ![EchoSession][d] = AfterRead(@, res)]
             /\ wire' = IF d = "toTarget"
                        THEN [wire EXCEPT !.buf[d] = Take(wire.c2p, res.n),
                                          !.c2p = Drop(@, res.n)]
                        ELSE [wire EXCEPT !.buf[d] = Take(wire.t2p, res.n),
                                          !.t2p = Drop(@, res.n)]
    /\ UNCHANGED <<config, listenerOpen, loopPc, hookPc, tErrors, acceptsOk,
                   acceptsFailed, sess, errCh, counters, call, ratioOut, legacy>>

\* dst.Write(buf[0:nr]) of io.Copy: the underlying write takes every byte it
\* is handed; what it took is on its way to the peer.
EchoWrite(d) ==
    /\ pipes[EchoSession][d].pc = "write"
    /\ DstOpen(EchoSession, d)
    /\ \E draw \in Draws :
          LET nr == pipes[EchoSession][d].nr
              res == WriteResult(d, draw, nr, [n |-> nr, err |-> Nil])
              out == Take(wire.buf[d], res.n)
          IN /\ pipes' = [pipes EXCEPT ![EchoSession][d] = AfterWrite(@, res)]
             /\ wire' = IF d = "toTarget"
                        THEN [wire EXCEPT !.buf[d] = <<>>, !.p2t = @ \o out]
                        ELSE [wire EXCEPT !.buf[d] = <<>>, !.recv = @ \o out]
    /\ UNCHANGED <<config, listenerOpen, loopPc, hookPc, tErrors, acceptsOk,
                   acceptsFailed, sess, errCh, counters, call, ratioOut, legacy>>

\* The target: io.Copy(conn, conn) sends back what it reads.
TargetEcho ==
    /\ wire.p2t # <<>>
    /\ \E k \in 1..Len(wire.p2t) :
          wire' = [wire EXCEPT !.atTarget = @ \o Take(wire.p2t, k),
                               !.t2p = @ \o Take(wire.p2t, k),
                               !.p2t = Drop(@, k)]
    /\ UNCHANGED <<config, engine, counters, call, ratioOut, legacy>>

NextEcho ==
    \/ EchoAccept
    \/ TargetAnswers /\ SessionDialOk(EchoSession)
    \/ ClientWrite
    \/ \E d \in Dirs : EchoRead(d)
    \/ \E d \in Dirs : EchoWrite(d)
    \/ TargetEcho
    \/ \E d \in Dirs : CopyReadClosed(EchoSession, d)
    \/ \E d \in Dirs : CopyWriteClosed(EchoSession, d)
    \/ \E d \in Dirs : PipeReturn(EchoSession, d)
    \/ SessionEnd(EchoSession)

\* A read returns once bytes have arrived, a write of bytes the peer takes
\* returns, the echoing target keeps reading; the dial of a listening target
\* succeeds.
EchoFairness ==
    /\ WF_vars(TargetAnswers /\ SessionDialOk(EchoSession))
    /\ WF_vars(TargetEcho)
    /\ \A d \in Dirs : WF_vars(EchoRead(d)) /\ WF_vars(EchoWrite(d))

EchoSpec == Init /\ [][NextEcho]_vars /\ EchoFairness /\ Fairness

(***************************************************************************)
(* shouldFail called once, for every ratio and every draw.                 *)
(***************************************************************************)
CoinRatios == (0 - 1)..(maxChoice + 1)

InitCoin ==
    /\ readRatio \in CoinRatios
    /\ writeRatio = 0
    /\ InitProxy
    /\ confTarget = PlainTarget
    /\ call = NoCall
    /\ ratioOut = NoRatio
    /\ wire = NoWire
    /\ legacy = NoLegacy

Flip ==
    /\ call = NoCall
    /\ \E draw \in IODraws :
          call' = [op |-> "shouldFail", ratio |-> readRatio, draw |-> draw,
                   res |-> shouldFail(readRatio, draw)]
    /\ UNCHANGED <<config, engine, counters, ratioOut, wire, legacy>>

NextCoin == Flip

CoinSpec == InitCoin /\ [][NextCoin]_vars

(***************************************************************************)
(* Config.targetAddress.  Strings are sequences of characters; "a" stands  *)
(* for the letters and "0", "1", "8" for the digits.  url.Parse,           *)
(* net.SplitHostPort and net.JoinHostPort are the library's, followed as   *)
(* far as targets over these characters reach.                             *)
(***************************************************************************)
Letters == {"a"}
Digits == {"0", "1", "8"}

\* strings.Index / strings.LastIndex, counting from 1; 0 when c is not in s.
Index(s, c) ==
    IF \E i \in 1..Len(s) : s[i] = c
    THEN CHOOSE i \in 1..Len(s) : s[i] = c /\ \A j \in 1..(i - 1) : s[j] # c
    ELSE 0
LastIndex(s, c) ==
    IF \E i \in 1..Len(s) : s[i] = c
    THEN CHOOSE i \in 1..Len(s) : s[i] = c /\ \A j \in (i + 1)..Len(s) : s[j] # c
    ELSE 0
HasPrefix(s, p) == Len(p) <= Len(s) /\ SubSeq(s, 1, Len(p)) = p
From(s, i) == SubSeq(s, i, Len(s))

\* url.getScheme: the letters, digits and dots before the first ':'.
GetScheme(raw) ==
    LET stops == {i \in 1..Len(raw) :
                     ~(\/ raw[i] \in Letters
                       \/ (raw[i] \in Digits \cup {"."} /\ i > 1))}
        stop == IF stops = {} THEN 0
                ELSE CHOOSE i \in stops : \A j \in stops : i <= j
    IN IF stop = 0 \/ raw[stop] # ":"
       THEN [ok |-> TRUE, scheme |-> <<>>, rest |-> raw]
       ELSE IF stop = 1
            THEN [ok |-> FALSE, scheme |-> <<>>, rest |-> <<>>]
            ELSE [ok |-> TRUE, scheme |-> SubSeq(raw, 1, stop - 1),
                  rest |-> From(raw, stop + 1)]

\* url.validOptionalPort: empty, or ':' and digits.
ValidOptionalPort(cp) ==
    \/ cp = <<>>
    \/ cp[1] = ":" /\ \A i \in 2..Len(cp) : cp[i] \in Digits

\* url.parseHost: the host is kept as written, brackets and port included.
ParseHost(host) ==
    IF HasPrefix(host, <<"[">>)
    THEN LET i == LastIndex(host, "]")
         IN IF i = 0 THEN [ok |-> FALSE, host |-> <<>>]
            ELSE IF ~ValidOptionalPort(From(host, i + 1))
                 THEN [ok |-> FALSE, host |-> <<>>]
                 ELSE [ok |-> TRUE, host |-> host]
    ELSE LET i == LastIndex(host, ":")
         IN IF i # 0 /\ ~ValidOptionalPort(From(host, i))
            THEN [ok |-> FALSE, host |-> <<>>]
            ELSE [ok |-> TRUE, host |-> host]

\* url.Parse, as far as u.Host goes.
UrlParse(raw) ==
    LET gs == GetScheme(raw)
        rest == gs.rest
        slash == Index(rest, "/")
        segment == IF slash = 0 THEN rest ELSE SubSeq(rest, 1, slash - 1)
    IN IF ~gs.ok THEN [ok |-> FALSE, host |-> <<>>]
       ELSE IF ~HasPrefix(rest, <<"/">>) /\ gs.scheme # <<>>
            THEN [ok |-> TRUE, host |-> <<>>]
       ELSE IF ~HasPrefix(rest, <<"/">>) /\ Index(segment, ":") # 0
            THEN [ok |-> FALSE, host |-> <<>>]
       ELSE IF HasPrefix(rest, <<"/", "/">>)
                 /\ (gs.scheme # <<>> \/ ~HasPrefix(rest, <<"/", "/", "/">>))
            THEN LET auth0 == From(rest, 3)
                     i == Index(auth0, "/")
                     authority == IF i = 0 THEN auth0 ELSE SubSeq(auth0, 1, i - 1)
                 IN ParseHost(authority)
       ELSE [ok |-> TRUE, host |-> <<>>]

\* net.SplitHostPort.
SplitHostPort(hostport) ==
    LET i == LastIndex(hostport, ":")
        fail == [ok |-> FALSE, host |-> <<>>, port |-> <<>>]
    IN IF i = 0 THEN fail
       ELSE IF hostport[1] = "["
            THEN LET end == Index(hostport, "]")
                 IN IF end = 0 THEN fail
                    ELSE IF end + 1 # i THEN fail
                    ELSE IF Index(From(hostport, 2), "[") # 0 THEN fail
                    ELSE IF Index(From(hostport, end + 1), "]") # 0 THEN fail
                    ELSE [ok |-> TRUE, host |-> SubSeq(hostport, 2, end - 1),
                          port |-> From(hostport, i + 1)]
            ELSE IF Index(SubSeq(hostport, 1, i - 1), ":") # 0 THEN fail
                 ELSE IF Index(hostport, "[") # 0 THEN fail
                 ELSE IF Index(hostport, "]") # 0 THEN fail
                 ELSE [ok |-> TRUE, host |-> SubSeq(hostport, 1, i - 1),
                       port |-> From(hostport, i + 1)]

\* net.JoinHostPort.
JoinHostPort(host, port) ==
    IF Index(host, ":") # 0
    THEN <<"[">> \o host \o <<"]", ":">> \o port
    ELSE host \o <<":">> \o port

targetAddress(target) ==
    LET u == UrlParse(target)
        host1 == IF u.ok /\ u.host # <<>> THEN u.host ELSE target
        sp == SplitHostPort(host1)
        host == IF sp.ok THEN sp.host ELSE host1
        port == IF sp.ok /\ sp.port # <<>> THEN sp.port ELSE <<"8", "0">>
    IN JoinHostPort(host, port)

\* The targets a Config is given: a bare host, host:port, scheme://host[:port].
\* An IPv6 literal is written in brackets where a port or a scheme goes with it.
Schemes == {<<"a">>, <<"a", "a">>}
Names == {<<"a">>, <<"a", "a">>, <<"a", ".", "a">>, <<"a", "1">>, <<"1", ".", "1">>}
Literal6 == <<":", ":", "1">>
Bracketed(h) == <<"[">> \o h \o <<"]">>
Ports == {<<"1">>, <<"8", "0">>, <<"8", "1">>}
TargetForms ==
    [scheme : Schemes \cup {<<>>}, host : Names \cup {Bracketed(Literal6)},
     port : Ports \cup {<<>>}]
    \cup {[scheme |-> <<>>, host |-> Literal6, port |-> <<>>]}
Render(f) ==
    (IF f.scheme # <<>> THEN f.scheme \o <<":", "/", "/">> ELSE <<>>)
        \o f.host
        \o (IF f.port # <<>> THEN <<":">> \o f.port ELSE <<>>)
\* host:port of a target form, port 80 when none is given.
HostPort(f) ==
    (IF f.host = Literal6 THEN Bracketed(f.host) ELSE f.host)
        \o <<":">> \o (IF f.port # <<>> THEN f.port ELSE <<"8", "0">>)

InitAddr ==
    /\ readRatio = 0
    /\ writeRatio = 0
    /\ \E f \in TargetForms :
          /\ confTarget = Render(f)
          /\ call = [op |-> "config", form |-> f]
    /\ InitProxy
    /\ ratioOut = NoRatio
    /\ wire = NoWire
    /\ legacy = NoLegacy

\* c.targetAddress()
Normalize ==
    /\ call.op = "config"
    /\ call' = [op |-> "targetAddress", form |-> call.form,
                out |-> targetAddress(confTarget)]
    /\ UNCHANGED <<config, engine, counters, ratioOut, wire, legacy>>

\* Config{Target: c.targetAddress()}.targetAddress()
NormalizeAgain ==
    /\ call.op = "targetAddress"
    /\ call' = [op |-> "again", form |-> call.form, out |-> call.out,
                again |-> targetAddress(call.out)]
    /\ UNCHANGED <<config, engine, counters, ratioOut, wire, legacy>>

NextAddr == Normalize \/ NormalizeAgain

AddrSpec == InitAddr /\ [][NextAddr]_vars

(***************************************************************************)
(* newListener and listener.Accept, for every shaping configuration.  Two  *)
(* revisions of newListener are kept in the sources: the current one and   *)
(* the one of src/badnet.go that passes the plain listener through when    *)
(* shaping is off.                                                         *)
(***************************************************************************)
\* Direction{MaxKBps, Latency, FailureRatio}; 0 is "unlimited" and "none".
Rates == {0, 1}
Latencies == {0, 1}
Directions == [MaxKBps : Rates, Latency : Latencies, FailureRatio : IORatios]
Revisions == {"current", "passthrough"}

\* What net.Listen's listener hands out: a plain connection.
RawListener == [kind |-> "net.Listener"]
RawConn == [kind |-> "net.Conn"]

\* newListener of the current revision: always &listener{throttled, ratios}.
newListener(conf) ==
    [kind |-> "listener",
     readFailureRatio |-> conf.Read.FailureRatio,
     writeFailureRatio |-> conf.Write.FailureRatio]

\* newListener of src/badnet.go: the plain listener when a direction has
\* neither a rate nor a latency.
newListenerPassthrough(conf) ==
    IF \/ (conf.Read.MaxKBps = 0 /\ conf.Read.Latency = 0)
       \/ (conf.Write.MaxKBps = 0 /\ conf.Write.Latency = 0)
    THEN RawListener
    ELSE [kind |-> "listener",
          readFailureRatio |-> conf.Read.FailureRatio,
          writeFailureRatio |-> conf.Write.FailureRatio]

\* ln.Accept() returning a connection: listener.Accept wraps it in &conn{...},
\* the plain listener returns it as it is.
listenerAccept(ln) ==
    IF ln.kind = "listener"
    THEN [kind |-> "conn",
          readFailureRatio |-> ln.readFailureRatio,
          writeFailureRatio |-> ln.writeFailureRatio]
    ELSE RawConn

InitListener ==
    /\ \E rev \in Revisions, rd \in Directions, wr \in Directions :
          /\ readRatio = rd.FailureRatio
          /\ writeRatio = wr.FailureRatio
          /\ call = [op |-> "config", rev |-> rev, conf |-> [Read |-> rd, Write |-> wr]]
    /\ confTarget = PlainTarget
    /\ InitProxy
    /\ ratioOut = NoRatio
    /\ wire = NoWire
    /\ legacy = NoLegacy

\* ln, err := newListener(conf)
NewListener ==
    /\ call.op = "config"
    /\ call' = [op |-> "newListener", rev |-> call.rev, conf |-> call.conf,
                ln |-> IF call.rev = "current" THEN newListener(call.conf)
                       ELSE newListenerPassthrough(call.conf)]
    /\ UNCHANGED <<config, engine, counters, ratioOut, wire, legacy>>

\* conn, err := ln.Accept() with err == nil
ListenerAccept ==
    /\ call.op = "newListener"
    /\ call' = [op |-> "Accept", rev |-> call.rev, conf |-> call.conf,
                ln |-> call.ln, conn |-> listenerAccept(call.ln)]
    /\ UNCHANGED <<config, engine, counters, ratioOut, wire, legacy>>

NextListener == NewListener \/ ListenerAccept

ListenerSpec == InitListener /\ [][NextListener]_vars

(***************************************************************************)
(* The accept loop of the two ForTest revisions kept in src/badnet.go.     *)
(* Each round makes an unbuffered connCh and starts a helper goroutine     *)
(* that calls Accept and sends the connection; the loop selects between    *)
(* ctx.Done() and connCh and serves the session itself.                    *)
(*   "first":  lines 64-127, cleanup cancels and then closes the listener, *)
(*             the loop closes connCh after a session as well;             *)
(*   "second": lines 306-362, cleanup only cancels.                        *)
(***************************************************************************)
LegacyRevisions == {"first", "second"}

LegacyStart(rev) ==
    [rev |-> rev,
     cleanup |-> "idle",      \* t.Cleanup: "idle" | "cancelled" | "closed"
     ctx |-> "live",          \* "live" | "done"
     ln |-> "open",           \* "open" | "closed"
     loop |-> "select",       \* "select" | "serving" | "returned"
     helper |-> "accept",     \* "accept" | "send" | "exited" | "panicked"
     connCh |-> "open",       \* "open" | "closed"
     arrived |-> 0,           \* client connections accepted so far
     fatal |-> FALSE]         \* t.Fatalf was called

InitLegacy ==
    /\ readRatio \in Ratios
    /\ writeRatio \in Ratios
    /\ confTarget = PlainTarget
    /\ InitProxy
    /\ call = NoCall
    /\ ratioOut = NoRatio
    /\ wire = NoWire
    /\ \E rev \in LegacyRevisions : legacy = LegacyStart(rev)

LegacyFrame == UNCHANGED <<config, engine, counters, call, ratioOut, wire>>

\* t.Cleanup(func() { cancelFunc() }) runs first (last registered).
LegacyCancel ==
    /\ legacy.rev \in LegacyRevisions
    /\ legacy.cleanup = "idle"
    /\ legacy' = [legacy EXCEPT !.cleanup = "cancelled", !.ctx = "done"]
    /\ LegacyFrame

\* t.Cleanup(func() { ln.Close() }): only the first revision registers it.
LegacyClose ==
    /\ legacy.rev = "first"
    /\ legacy.cleanup = "cancelled"
    /\ legacy' = [legacy EXCEPT !.cleanup = "closed", !.ln = "closed"]
    /\ LegacyFrame

\* helper: conn, err := ln.Accept() returns a client's connection.
HelperAccept ==
    /\ legacy.rev \in LegacyRevisions
    /\ legacy.helper = "accept"
    /\ legacy.ln = "open"
    /\ legacy.arrived < MaxConns
    /\ legacy' = [legacy EXCEPT !.helper = "send", !.arrived = @ + 1]
    /\ LegacyFrame

\* helper: Accept fails on the closed listener; the helper returns (the second
\* revision calls t.Fatalf first).
HelperAcceptErr ==
    /\ legacy.rev \in LegacyRevisions
    /\ legacy.helper = "accept"
    /\ legacy.ln = "closed"
    /\ legacy' = [legacy EXCEPT !.helper = "exited",
                                !.fatal = @ \/ legacy.rev = "second"]
    /\ LegacyFrame

\* helper: connCh <- conn meets the loop's case conn := <-connCh.
HelperSend ==
    /\ legacy.rev \in LegacyRevisions
    /\ legacy.helper = "send"
    /\ legacy.connCh = "open"
    /\ legacy.loop = "select"
    /\ legacy' = [legacy EXCEPT !.helper = "exited", !.loop = "serving"]
    /\ LegacyFrame

\* helper: connCh <- conn on a closed channel panics.
HelperSendClosed ==
    /\ legacy.rev \in LegacyRevisions
    /\ legacy.helper = "send"
    /\ legacy.connCh = "closed"
    /\ legacy' = [legacy EXCEPT !.helper = "panicked"]
    /\ LegacyFrame

\* loop: case <-ctx.Done(): close(connCh); return
LoopCtxDone ==
    /\ legacy.rev \in LegacyRevisions
    /\ legacy.loop = "select"
    /\ legacy.ctx = "done"
    /\ legacy' = [legacy EXCEPT !.connCh = "closed", !.loop = "returned"]
    /\ LegacyFrame

\* loop: the session is over (dial, both pipes, <-errCh, the closes; the first
\* revision closes connCh); the next round makes a connCh and a helper.
LoopNextRound ==
    /\ legacy.rev \in LegacyRevisions
    /\ legacy.loop = "serving"
    /\ legacy' = [legacy EXCEPT !.loop = "select", !.connCh = "open",
                                !.helper = "accept"]
    /\ LegacyFrame

\* loop: net.Dial failed, t.Fatalf ends the loop's goroutine.
LoopDialFatal ==
    /\ legacy.rev \in LegacyRevisions
    /\ legacy.loop = "serving"
    /\ legacy' = [legacy EXCEPT !.loop = "returned", !.fatal = TRUE]
    /\ LegacyFrame

NextLegacy ==
    \/ LegacyCancel
    \/ LegacyClose
    \/ HelperAccept
    \/ HelperAcceptErr
    \/ HelperSend
    \/ HelperSendClosed
    \/ LoopCtxDone
    \/ LoopNextRound
    \/ LoopDialFatal

LegacySpec == InitLegacy /\ [][NextLegacy]_vars

(***************************************************************************)
(* Properties.                                                             *)
(***************************************************************************)
\* The pipe goroutine (s, d) hands its result over in this step.
Returns(s, d) == pipes[s][d].pc = "ret" /\ pipes'[s][d].pc = "done"
faults == readFailures + writeFailures
failedDials == Cardinality({s \in Sessions : sess[s].dial = "failed"})

\* C1: when the teardown hook has returned, the listener is closed and the
\* accept loop has exited (listenerClosed is closed); from then on no
\* connection is accepted and connectionCount does not change.
C1_TeardownStopsAccepting ==
    /\ [](hookPc = "returned" => ~listenerOpen /\ loopPc = "exited")
    /\ [][hookPc = "returned" =>
            /\ connectionCount' = connectionCount
            /\ acceptsOk' = acceptsOk
            /\ started' = started
            /\ hookPc' = "returned"]_vars

C1_Witness == hookPc = "returned" /\ connectionCount = 2 /\ acceptsFailed = 1

\* C2: in a session whose dial succeeded, once a relay task has terminated
\* both connections are eventually closed and the other relay task
\* eventually terminates too; a relay task that has its result is never
\* kept from sending it on errCh.
C2_SessionEndsBothRelays ==
    /\ [](\A s \in Sessions, d \in Dirs : pipes[s][d].pc = "ret" => CanSend(s))
    /\ \A s \in Sessions :
          (\E d \in Dirs : pipes[s][d].pc = "done")
              ~> (/\ sess[s].conn = "closed"
                  /\ sess[s].target = "closed"
                  /\ \A d \in Dirs : pipes[s][d].pc = "done")

C2_Witness ==
    \E s \in Sessions :
        /\ sess[s].pc = "done" /\ sess[s].dial = "ok"
        /\ sess[s].conn = "closed" /\ sess[s].target = "closed"
        /\ \A d \in Dirs : pipes[s][d].pc = "done"
        /\ errCh[s] = 1

\* C3: a failed dial adds exactly one to targetFailures, closes the inbound
\* connection, starts no relay task, leaves readFailures and writeFailures
\* alone, and leaves the accept loop accepting.
C3_DialFailure ==
    /\ [](\A s \in Sessions : sess[s].dial = "failed" =>
            /\ sess[s].pc = "done"
            /\ sess[s].conn = "closed"
            /\ sess[s].target = "none"
            /\ errCh[s] = 0
            /\ \A d \in Dirs : pipes[s][d].pc = "none")
    /\ [](targetFailures = failedDials)
    /\ []((failedDials > 0 /\ loopPc = "accepting" /\ listenerOpen /\ started < MaxConns)
            => ENABLED AcceptConn)
    /\ [][\A s \in Sessions :
            (sess[s].dial # "failed" /\ sess'[s].dial = "failed") =>
                /\ targetFailures' = targetFailures + 1
                /\ readFailures' = readFailures
                /\ writeFailures' = writeFailures
                /\ loopPc' = loopPc
                /\ listenerOpen' = listenerOpen]_vars
    /\ [][\A s \in Sessions :
            sess[s].dial = "failed" => sess'[s] = sess[s] /\ pipes'[s] = pipes[s]]_vars

C3_Witness ==
    /\ sess[1].dial = "failed"
    /\ targetFailures = 1
    /\ sess[2].pc = "none"
    /\ ENABLED AcceptConn

\* C4: connectionCount never decreases and always equals the number of Accept
\* calls that returned a connection, which is the number of sessions
\* spawned; a failed Accept adds nothing and spawns nothing.
C4_ConnectionCount ==
    /\ [](connectionCount = acceptsOk /\ connectionCount = started)
    /\ [][/\ connectionCount' >= connectionCount
          /\ acceptsOk' # acceptsOk =>
                connectionCount' = connectionCount + 1 /\ started' = started + 1
          /\ acceptsFailed' # acceptsFailed =>
                connectionCount' = connectionCount /\ started' = started]_vars

C4_Witness == connectionCount = 2 /\ acceptsOk = 2 /\ acceptsFailed = 1

\* C5: FailureRatio() returns 0 when connectionCount is 0 and otherwise
\* (readFailures + writeFailures + targetFailures) / connectionCount; it never
\* divides by zero and changes no counter.
C5_FailureRatio ==
    /\ [](ratioOut # NoRatio =>
            /\ ratioOut.den # 0
            /\ connectionCount = 0 => ratioOut.num = 0
            /\ connectionCount # 0 =>
                  ratioOut.num * connectionCount
                      = (readFailures + writeFailures + targetFailures) * ratioOut.den)
    /\ [][ratioOut' # ratioOut => counters' = counters]_vars

C5_Witness ==
    /\ ratioOut # NoRatio
    /\ connectionCount = 2
    /\ readFailures + writeFailures + targetFailures = 3
    /\ ratioOut.num * 2 = 3 * ratioOut.den

\* C6: the fault counters rise only when a relay task hands over its result,
\* by at most one for that task and by nothing when its error is the closed
\* connection the session's teardown caused; a relay task hands over once.
C6_AtMostOncePerFault ==
    /\ [][\A s \in Sessions, d \in Dirs : Returns(s, d) =>
            /\ faults' - faults \in {0, 1}
            /\ ErrorsIs(pipes[s][d].err, "ErrClosed") => faults' = faults
            /\ pipes[s][d].err = Nil => faults' = faults]_vars
    /\ [][faults' # faults => \E s \in Sessions, d \in Dirs : Returns(s, d)]_vars
    /\ [][\A s \in Sessions, d \in Dirs :
            pipes[s][d].pc = "done" => pipes'[s][d].pc = "done"]_vars

C6_Witness ==
    /\ started = 1
    /\ writeRatio = 50
    /\ sess[1].pc = "done"
    /\ pipes[1]["toClient"].pc = "done"
    /\ readFailures = 1
    /\ pipes[1]["toTarget"].pc = "ret"
    /\ pipes[1]["toTarget"].err = NetClosed

\* C7 (as claimed): an injected fault raises readFailures only when it was
\* injected by conn.Read and writeFailures only when by conn.Write; with
\* Read.FailureRatio = 0 no injected fault raises readFailures, with
\* Write.FailureRatio = 0 none raises writeFailures.
C7_CountersFollowInjection ==
    [][\A s \in Sessions, d \in Dirs :
         (Returns(s, d) /\ pipes[s][d].err = ErrUnexpectedEOF) =>
            /\ readRatio = 0 => readFailures' = readFailures
            /\ writeRatio = 0 => writeFailures' = writeFailures]_vars

\* C8 (as claimed): a relay task that ends with a genuine transport error (no
\* Fault Coin can have fired: both ratios are 0) leaves readFailures and
\* writeFailures unchanged.
C8_GenuineErrorNotCounted ==
    [][\A s \in Sessions, d \in Dirs :
         (Returns(s, d) /\ readRatio = 0 /\ writeRatio = 0
                        /\ pipes[s][d].err = ConnReset) =>
            /\ readFailures' = readFailures
            /\ writeFailures' = writeFailures]_vars

\* C9 (as claimed): after the teardown hook has returned no session goroutine
\* and no relay task is still running.
C9_NothingRunsAfterTeardown ==
    hookPc = "returned" =>
        \A s \in Sessions :
            /\ sess[s].pc \in {"none", "done"}
            /\ \A d \in Dirs : pipes[s][d].pc \in {"none", "done"}

\* C10: with Read.FailureRatio = 100 every conn.Read(b) hands only
\* b[0 : len(b)/2] to the underlying read, returns n <= len(b)/2 and a non-nil
\* error, io.ErrUnexpectedEOF when the underlying read returned none.
C10_ReadAlwaysTruncated ==
    (call.op = "Read" /\ readRatio = 100) =>
        /\ call.res.fired
        /\ call.res.passed = call.blen \div 2
        /\ call.res.n <= call.blen \div 2
        /\ call.res.err # Nil
        /\ call.under.err = Nil => call.res.err = ErrUnexpectedEOF
        /\ call.under.err # Nil => call.res.err = call.under.err

C10_Witness ==
    /\ call.op = "Read"
    /\ readRatio = 100
    /\ call.blen = 5
    /\ call.res.n = 2
    /\ call.res.err = ErrUnexpectedEOF

\* C11: with FailureRatio 0 in both directions no call of the relay injects a
\* fault and no relay task ends; what the target has read is a prefix of what
\* the client wrote, what the client has read back is a prefix of what the
\* target echoed, and every byte the client wrote comes back.
C11_EchoRoundTrip ==
    /\ []((readRatio = 0 /\ writeRatio = 0) =>
            /\ IsPrefix(wire.atTarget, wire.sent)
            /\ IsPrefix(wire.recv, wire.atTarget)
            /\ \A d \in Dirs : pipes[EchoSession][d].pc \in {"none", "read", "write"}
            /\ \A d \in Dirs : pipes[EchoSession][d].er = Nil
            /\ readFailures = 0 /\ writeFailures = 0)
    /\ \A k \in 1..MaxSent :
          (readRatio = 0 /\ writeRatio = 0 /\ Len(wire.sent) = k)
              ~> (Len(wire.recv) >= k /\ Take(wire.recv, k) = Take(wire.sent, k))

C11_Witness ==
    /\ readRatio = 0 /\ writeRatio = 0
    /\ wire.sent = <<"a", "b", "a">>
    /\ wire.atTarget = wire.sent
    /\ wire.recv = wire.sent

\* C12: shouldFail(ratio) is false for every ratio <= 0 and true for every
\* ratio >= 100 whatever the draw; for 0 < ratio < 100 it is true exactly when
\* the draw is below the ratio, so `ratio` of the 100 draws fire; the call
\* changes no state of the proxy.
C12_ShouldFail ==
    /\ [](call.op = "shouldFail" =>
            /\ call.ratio <= 0 => ~call.res
            /\ call.ratio >= 100 => call.res
            /\ (0 < call.ratio /\ call.ratio < 100) =>
                  (call.res <=> call.draw < call.ratio))
    /\ []((0 < readRatio /\ readRatio < 100) =>
            Cardinality({d \in IODraws : shouldFail(readRatio, d)}) = readRatio)
    /\ [][call' # call => UNCHANGED <<config, engine, counters, ratioOut, wire, legacy>>]_vars

C12_Witness ==
    /\ call.op = "shouldFail"
    /\ call.ratio = 50
    /\ call.draw = 49
    /\ call.res

\* C13: whenever Accept returns an error the accept loop exits; the error is
\* reported with t.Error exactly when the listener had not been closed (it is
\* not net.ErrClosed under listener.Accept's wrapping), and nothing else
\* reports an accept error.
C13_AcceptErrorReporting ==
    /\ [][acceptsFailed' # acceptsFailed =>
            /\ loopPc = "accepting" /\ loopPc' = "exited"
            /\ ~listenerOpen => ("accept" \notin tErrors' /\ tErrors' = tErrors)
            /\ listenerOpen => "accept" \in tErrors']_vars
    /\ [][("accept" \in tErrors') # ("accept" \in tErrors)
            => acceptsFailed' # acceptsFailed]_vars
    /\ [](loopPc = "exited" => acceptsFailed = 1)

C13_Witness ==
    /\ hookPc = "waiting"
    /\ loopPc = "exited"
    /\ acceptsFailed = 1
    /\ connectionCount = 1
    /\ "accept" \notin tErrors

\* C14 (as claimed): for every target given as a bare host, host:port or
\* scheme://host[:port], targetAddress yields host:port (port 80 when none is
\* given), and targetAddress of that result is the same string.
C14_TargetAddressIdempotent ==
    call.op = "again" =>
        /\ call.out = HostPort(call.form)
        /\ call.again = call.out

\* All the clients have finished: MaxConns sessions were served by the target,
\* each has ended and its relay tasks have handed over their results.
AllClientsFinished ==
    /\ started = MaxConns
    /\ \A s \in Sessions :
          /\ sess[s].pc = "done" /\ sess[s].dial = "ok"
          /\ \A d \in Dirs : pipes[s][d].pc = "done"

C16_TeardownTerminates ==
    /\ (hookPc = "waiting") ~> (loopPc = "exited")
    /\ (hookPc = "waiting") ~> (hookPc = "returned")
    /\ [](hookPc = "waiting" => ~listenerOpen)
    /\ []((hookPc = "waiting" /\ loopPc = "exited") => ENABLED HookReturn)

C16_Witness ==
    /\ hookPc = "returned"
    /\ sess[1].pc = "wait"
    /\ \A d \in Dirs : pipes[1][d].pc = "read"
    /\ sess[2].pc = "dial"

\* C17: while the listener is open the accept loop can take the next
\* connection whatever the earlier sessions are doing; the accept counts the
\* connection, starts its session and leaves every other session alone.
C17_AcceptNeverWaits ==
    /\ []((loopPc = "accepting" /\ listenerOpen /\ started < MaxConns)
            => ENABLED AcceptConn)
    /\ [][acceptsOk' # acceptsOk =>
            /\ connectionCount' = connectionCount + 1
            /\ sess[started + 1].pc = "none"
            /\ sess'[started + 1].pc = "dial" /\ sess'[started + 1].conn = "open"
            /\ \A s \in Sessions : s # started + 1 => sess'[s] = sess[s]
            /\ pipes' = pipes /\ errCh' = errCh]_vars

C17_Witness ==
    /\ connectionCount = 2
    /\ sess[1].pc = "wait"
    /\ \A d \in Dirs : pipes[1][d].pc \in {"read", "write"}
    /\ sess[2].pc = "dial"
    /\ loopPc = "accepting"

\* The relay task holds an injected fault: the interrupted transfer that
\* conn.Read or conn.Write reported.
HoldsFault(p) == p.er = ErrUnexpectedEOF \/ p.err = ErrUnexpectedEOF

\* C18: a relay task that was handed an injected fault reads no more: it
\* writes at most the bytes the faulty read returned and then returns, and it
\* never starts copying again; once it has returned with the fault the
\* session ends, both connections are closed and the task is done.
C18_FaultIsTerminal ==
    /\ [][\A s \in Sessions, d \in Dirs :
            /\ HoldsFault(pipes[s][d]) =>
                  \/ pipes'[s][d] = pipes[s][d]
                  \/ pipes'[s][d].pc \in {"ret", "done"}
            /\ pipes[s][d].pc \in {"ret", "done"} =>
                  pipes'[s][d].pc \in {"ret", "done"}]_vars
    /\ [](\A s \in Sessions, d \in Dirs :
            HoldsFault(pipes[s][d]) => pipes[s][d].pc \in {"write", "ret"})
    /\ \A s \in Sessions, d \in Dirs :
          (pipes[s][d].pc = "ret" /\ pipes[s][d].err = ErrUnexpectedEOF)
              ~> (/\ sess[s].pc = "done"
                  /\ sess[s].conn = "closed" /\ sess[s].target = "closed"
                  /\ pipes[s][d].pc = "done")

C18_Witness ==
    /\ pipes[1]["toTarget"].pc = "ret"
    /\ pipes[1]["toTarget"].err = ErrUnexpectedEOF
    /\ pipes[1]["toClient"].pc = "ret"
    /\ pipes[1]["toClient"].err = ErrUnexpectedEOF
    /\ sess[1].pc = "wait"

\* C19: a step of one session's relay tasks, and the end of a session, leave
\* the listener, the accept loop and the teardown hook alone and change no
\* connection, relay task or errCh of another session; a connection is closed
\* only by the end of its own session.
C19_ErrorsAreSessionScoped ==
    /\ [][\A s \in Sessions :
            (pipes'[s] # pipes[s] \/ (sess[s].pc = "wait" /\ sess'[s].pc = "done")) =>
                /\ listenerOpen' = listenerOpen
                /\ loopPc' = loopPc
                /\ hookPc' = hookPc
                /\ \A t \in Sessions \ {s} :
                      sess'[t] = sess[t] /\ pipes'[t] = pipes[t] /\ errCh'[t] = errCh[t]]_vars
    /\ [](\A s \in Sessions :
            (sess[s].conn = "closed" \/ sess[s].target = "closed") => sess[s].pc = "done")

C19_Witness ==
    /\ sess[1].pc = "done" /\ sess[1].conn = "closed" /\ sess[1].target = "closed"
    /\ readFailures + writeFailures = 2
    /\ sess[2].pc = "wait" /\ sess[2].conn = "open" /\ sess[2].target = "open"
    /\ \A d \in Dirs : pipes[2][d].pc \in {"read", "write"}
    /\ listenerOpen /\ loopPc = "accepting"

\* C20: when the Fault Coin fires in conn.Write(b), b[0 : len(b)/2] is what
\* the underlying connection is handed, the count returned is at most
\* len(b)/2 and the error is non-nil, io.ErrUnexpectedEOF when the underlying
\* write returned none; when it does not fire the whole buffer is handed on
\* and the underlying result is returned as it is.  With ratio 0 the coin
\* never fires, with ratio 100 it always does.
C20_WriteTruncation ==
    call.op = "Write" =>
        /\ call.res.fired =>
              /\ call.res.passed = call.blen \div 2
              /\ call.res.n = Min(call.blen \div 2, call.under.n)
              /\ call.res.n <= call.blen \div 2
              /\ call.res.err # Nil
              /\ call.under.err = Nil => call.res.err = ErrUnexpectedEOF
              /\ call.under.err # Nil => call.res.err = call.under.err
        /\ ~call.res.fired =>
              /\ call.res.passed = call.blen
              /\ call.res.n = Min(call.blen, call.under.n)
              /\ call.res.err = call.under.err
        /\ writeRatio = 0 => ~call.res.fired
        /\ writeRatio = 100 => call.res.fired

C20_Witness ==
    /\ call.op = "Write"
    /\ writeRatio = 50
    /\ call.res.fired
    /\ call.blen = 5
    /\ call.under = [n |-> 5, err |-> Nil]
    /\ call.res.n = 2
    /\ call.res.err = ErrUnexpectedEOF

\* C21: when the Fault Coin fires in conn.Read(b) and the underlying read of
\* b[0 : len(b)/2] returns an error, conn.Read returns that error, not
\* io.ErrUnexpectedEOF, and the count the underlying read delivered, which is
\* no more than the underlying connection had and no more than len(b)/2.
C21_ReadKeepsUnderlyingError ==
    (call.op = "Read" /\ call.res.fired /\ call.under.err # Nil) =>
        /\ call.res.err = call.under.err
        /\ call.res.n = UnderIO(call.under, call.blen \div 2).n
        /\ call.res.n <= call.under.n
        /\ call.res.n <= call.blen \div 2

C21_Witness ==
    /\ call.op = "Read"
    /\ call.res.fired
    /\ call.blen = 5
    /\ call.under = [n |-> 1, err |-> ConnReset]
    /\ call.res.n = 1
    /\ call.res.err = ConnReset

\* C22 (as claimed): for every configuration, shaping switched off included,
\* and for both revisions of newListener, the connection Accept returns is a
\* fault-injecting connection that carries the configured Read and Write
\* failure ratios.
C22_AcceptAlwaysInjects ==
    call.op = "Accept" =>
        /\ call.conn.kind = "conn"
        /\ call.conn.readFailureRatio = call.conf.Read.FailureRatio
        /\ call.conn.writeFailureRatio = call.conf.Write.FailureRatio

\* C23: whatever faults are injected, all the relay has written to the target
\* is a prefix of what the client has sent, and all it has written back to the
\* client is a prefix of what the target has sent.
C23_StreamsArePrefixes ==
    /\ IsPrefix(wire.atTarget \o wire.p2t, wire.sent)
    /\ IsPrefix(wire.recv, wire.atTarget)

C23_Witness ==
    /\ writeRatio = 50
    /\ wire.sent = <<"a", "b", "a">>
    /\ wire.atTarget = wire.sent
    /\ wire.recv = <<"a">>
    /\ pipes[EchoSession]["toClient"].pc = "done"
    /\ sess[EchoSession].conn = "closed"

\* C24: targetFailures + readFailures and targetFailures + writeFailures never
\* exceed connectionCount; so there are failures only when there are
\* connections, and FailureRatio() is at most 2.
C24_FailuresBoundedByConnections ==
    /\ targetFailures + readFailures <= connectionCount
    /\ targetFailures + writeFailures <= connectionCount
    /\ (readFailures + writeFailures + targetFailures > 0) => connectionCount > 0
    /\ LET r == FailureRatio(connectionCount, readFailures, writeFailures,
                             targetFailures)
       IN r.den > 0 /\ r.num <= 2 * r.den

C24_Witness ==
    /\ connectionCount = 2
    /\ targetFailures = 1
    /\ readFailures = 1
    /\ writeFailures = 1
    /\ sess[1].dial = "failed"
    /\ sess[2].dial = "ok"

\* C25 (as claimed): in both ForTest revisions of src/badnet.go the helper
\* goroutine never sends on a connCh the loop has closed: no interleaving of
\* cancellation, listener close and an arriving connection reaches the panic.
C25_NoSendOnClosedConnCh ==
    legacy.rev \in LegacyRevisions => legacy.helper # "panicked"

====
